---- MODULE Spec2Model ----
(***************************************************************************)
(* Model of parquet_consolidator: the file locator (find_parquet_files,   *)
(* is_parquet_file), the schema check (schemas_compatible) and the two    *)
(* consolidation engines (src/main.rs: arrow/parquet streaming writer;    *)
(* src/consolidator.rs: polars concat), plus the command line driver.     *)
(*                                                                         *)
(* A path is a sequence of components; a component is a sequence of byte   *)
(* codes, so that extension(), to_lowercase() and the ordering of PathBuf  *)
(* are computed and not assumed.                                           *)
(***************************************************************************)
EXTENDS Integers, Sequences, FiniteSets, TLC

\* ------------------------------------------------------------------ bounds
MaxFiles == 3
MaxBatches == 2
MaxFields == 2

\* ------------------------------------------------------- schemas (arrow)
Field(n, t, nl) == [name |-> n, data_type |-> t, nullable |-> nl]

TestSchema ==
    << Field("id", "Int32", FALSE),
       Field("name", "Utf8", FALSE),
       Field("value", "Float64", FALSE) >>

ExtraColumnSchema == TestSchema \o << Field("extra", "Utf8", TRUE) >>

\* the standard schema written by a producer that declares `value` nullable
NullableSchema ==
    << Field("id", "Int32", FALSE),
       Field("name", "Utf8", FALSE),
       Field("value", "Float64", TRUE) >>

FileSchemas == {TestSchema, ExtraColumnSchema, NullableSchema}

\* the zip loop of schemas_compatible from position i on
RECURSIVE FieldsMatchFrom(_, _, _)
FieldsMatchFrom(schema1, schema2, i) ==
    IF i > Len(schema1) \/ i > Len(schema2) THEN TRUE
    ELSE IF schema1[i].name # schema2[i].name
            \/ schema1[i].data_type # schema2[i].data_type THEN FALSE
    ELSE FieldsMatchFrom(schema1, schema2, i + 1)

\* schemas_compatible without the length check of line 224
schemas_compatible_nolen(schema1, schema2) ==
    FieldsMatchFrom(schema1, schema2, 1)

\* schemas_compatible comparing whole fields, nullability included
schemas_compatible_strict(schema1, schema2) ==
    schema1 = schema2

schemas_compatible(schema1, schema2) ==
    IF Len(schema1) # Len(schema2) THEN FALSE
    ELSE FieldsMatchFrom(schema1, schema2, 1)

\* ------------------------------------------------------------------ paths
Dot == 46
ParquetLower == <<112, 97, 114, 113, 117, 101, 116>>
ParquetUpper == <<80, 65, 82, 81, 85, 69, 84>>

NameD == <<100>>
\* the subdirectory carries the extension too: only regular files may match
NameS == <<115, Dot>> \o ParquetLower
NameM == <<109>>
NameA == <<97, Dot>> \o ParquetLower
NameB == <<98, Dot>> \o ParquetUpper
NameE == <<101, Dot>> \o ParquetLower
NameTxt == <<110, Dot, 116, 120, 116>>
NameOut == <<111, Dot>> \o ParquetLower
NameOld == <<112, Dot>> \o ParquetLower

PathD == <<NameD>>
PathA == <<NameD, NameA>>
PathB == <<NameD, NameB>>
PathTxt == <<NameD, NameTxt>>
PathS == <<NameD, NameS>>
PathE == <<NameD, NameS, NameE>>
PathMissing == <<NameM>>
PathOutNew == <<NameOut>>
PathOutOld == <<NameOld>>

PoolPaths == {PathA, PathB}
EnginePaths == PoolPaths \cup {PathOutNew, PathOutOld}
AllPaths == EnginePaths \cup {PathD, PathTxt, PathS, PathE, PathMissing}

\* ---------------------------------------------------------------- locator
\* index of the last '.' of a file name at or before position i, 0 if none
RECURSIVE LastDot(_, _)
LastDot(name, i) ==
    IF i = 0 THEN 0
    ELSE IF name[i] = Dot THEN i
    ELSE LastDot(name, i - 1)

\* std::path::Path::extension: None without a file name, without a dot, or
\* when the only dot is the first byte; else the bytes after the last dot
extension(path) ==
    IF path = <<>> \/ path[Len(path)] = <<Dot, Dot>>
    THEN [some |-> FALSE, value |-> <<>>]
    ELSE LET name == path[Len(path)]
             k == LastDot(name, Len(name))
         IN  IF k <= 1 THEN [some |-> FALSE, value |-> <<>>]
             ELSE [some |-> TRUE, value |-> SubSeq(name, k + 1, Len(name))]

\* str::to_lowercase on the byte codes the model uses (ASCII)
to_lowercase(str) ==
    [i \in DOMAIN str |-> IF str[i] >= 65 /\ str[i] <= 90 THEN str[i] + 32 ELSE str[i]]

\* is_parquet_file without the to_lowercase
is_parquet_file_case_sensitive(path) ==
    LET ext == extension(path)
    IN  IF ext.some THEN ext.value = ParquetLower ELSE FALSE

is_parquet_file(path) ==
    LET ext == extension(path)
    IN  IF ext.some THEN to_lowercase(ext.value) = ParquetLower ELSE FALSE

\* Ord of byte strings and of PathBuf (component by component)
RECURSIVE BytesLess(_, _)
BytesLess(a, b) ==
    IF a = <<>> THEN b # <<>>
    ELSE IF b = <<>> THEN FALSE
    ELSE IF Head(a) < Head(b) THEN TRUE
    ELSE IF Head(a) > Head(b) THEN FALSE
    ELSE BytesLess(Tail(a), Tail(b))

RECURSIVE PathLess(_, _)
PathLess(p, q) ==
    IF p = <<>> THEN q # <<>>
    ELSE IF q = <<>> THEN FALSE
    ELSE IF BytesLess(Head(p), Head(q)) THEN TRUE
    ELSE IF BytesLess(Head(q), Head(p)) THEN FALSE
    ELSE PathLess(Tail(p), Tail(q))

RECURSIVE InsertSorted(_, _)
InsertSorted(sorted, p) ==
    IF sorted = <<>> THEN <<p>>
    ELSE IF PathLess(p, Head(sorted)) THEN <<p>> \o sorted
    ELSE <<Head(sorted)>> \o InsertSorted(Tail(sorted), p)

\* Vec::sort (stable)
RECURSIVE sort(_)
sort(files) ==
    IF files = <<>> THEN <<>>
    ELSE InsertSorted(sort(SubSeq(files, 1, Len(files) - 1)), files[Len(files)])

Children(f, dir) ==
    {p \in DOMAIN f : /\ Len(p) = Len(dir) + 1
                      /\ SubSeq(p, 1, Len(dir)) = dir
                      /\ f[p].kind # "absent"}

\* WalkDir: the entry itself, then (depth permitting) each child's walk, the
\* children in whatever order the file system enumerates them
RECURSIVE WalkOrders(_, _, _), WalkAll(_, _, _)
WalkOrders(f, p, depth) ==
    IF f[p].kind = "dir" /\ depth > 0
    THEN {<<p>> \o w : w \in WalkAll(f, Children(f, p), depth - 1)}
    ELSE {<<p>>}
WalkAll(f, S, depth) ==
    IF S = {} THEN {<<>>}
    ELSE UNION {{w \o rest : w \in WalkOrders(f, c, depth),
                             rest \in WalkAll(f, S \ {c}, depth)} : c \in S}

\* a walker that ignores the recursive flag
WalkDepth_unlimited(f, rec) == Cardinality(DOMAIN f)

\* max_depth(1), or no limit (no path of the tree is longer than its size)
WalkDepth(f, rec) == IF rec THEN Cardinality(DOMAIN f) ELSE 1

Collect(f, walk) ==
    SelectSeq(walk, LAMBDA e : f[e].kind = "file" /\ is_parquet_file(e))

\* ------------------------------------------------------------- file system
Absent == [kind |-> "absent", valid |-> FALSE, schema |-> <<>>, batches |-> <<>>]
DirNode == [kind |-> "dir", valid |-> FALSE, schema |-> <<>>, batches |-> <<>>]
ParquetFile(s, bs) == [kind |-> "file", valid |-> TRUE, schema |-> s, batches |-> bs]
\* a parquet file whose footer has not been written (created, not closed)
PartialFile(s) == [kind |-> "file", valid |-> FALSE, schema |-> s, batches |-> <<>>]

Batch(p, k) == [src |-> p, seq |-> k, rows |-> k]
BatchesOf(p, nb) == [k \in 1..nb |-> Batch(p, k)]

RECURSIVE SumRows(_)
SumRows(bs) == IF bs = <<>> THEN 0 ELSE Head(bs).rows + SumRows(Tail(bs))

SeqsUpTo(S, n) == UNION {[1..k -> S] : k \in 0..n}

\* ---------------------------------------------------------------- results
NoPath == <<>>
NoErr == [kind |-> "none", file |-> NoPath, position |-> 0, of |-> 0,
          has_schemas |-> FALSE, expected |-> <<>>, found |-> <<>>, batch |-> 0]
Err(k, f) == [NoErr EXCEPT !.kind = k, !.file = f]
\* the value of an Ok: () for Result<()>, or a row count
Unit == [is_unit |-> TRUE, count |-> 0]
Count(n) == [is_unit |-> FALSE, count |-> n]
Pending == [status |-> "pending", value |-> Unit, err |-> NoErr]
Ok(v) == [status |-> "ok", value |-> v, err |-> NoErr]
Failure(e) == [status |-> "err", value |-> Unit, err |-> e]

VARIABLES variant, inputs, output, fs, fs0, pc, schema, vi, si,
          handles, opens, batch, rows_written, batch_count, total_rows,
          writer, result, frame, root, recursive, located, cli_pc, exit,
          probe

vars == <<variant, inputs, output, fs, fs0, pc, schema, vi, si,
          handles, opens, batch, rows_written, batch_count, total_rows,
          writer, result, frame, root, recursive, located, cli_pc, exit,
          probe>>

\* the command line driver's own state
driver == <<root, recursive, located, cli_pc, exit>>

NotLocated == [status |-> "pending", files |-> <<>>, err |-> NoErr]
Located(fl) == [status |-> "ok", files |-> fl, err |-> NoErr]
LocateFailure(e) == [status |-> "err", files |-> <<>>, err |-> e]
NotExited == [code |-> -1, err |-> NoErr, count |-> 0]

\* a direct call of schemas_compatible: its arguments and what it returned
Probe(a, b) == [schema1 |-> a, schema2 |-> b, called |-> FALSE, ret |-> FALSE]
NoProbe == Probe(<<>>, <<>>)

NoBatch == [src |-> NoPath, seq |-> 0, rows |-> 0]

\* outcomes of File::open followed by ParquetRecordBatchReaderBuilder::try_new
ReadOutcomes(p) ==
    IF fs[p].kind = "absent" THEN {"open"}
    ELSE IF fs[p].kind = "dir" \/ ~fs[p].valid THEN {"open", "parse"}
    ELSE {"ok", "open", "parse"}

Contents(p) ==
    {ParquetFile(s, BatchesOf(p, nb)) : s \in FileSchemas, nb \in 0..MaxBatches}

OldOutput == ParquetFile(ExtraColumnSchema, BatchesOf(PathOutOld, 1))

EngineFs0 ==
    { [p \in AllPaths |->
          IF p = PathA THEN a
          ELSE IF p = PathB THEN b
          ELSE IF p = PathD THEN DirNode
          ELSE IF p = PathOutOld THEN OldOutput
          ELSE Absent] : a \in Contents(PathA), b \in Contents(PathB) }

Init ==
    /\ variant \in {"main", "lib"}
    /\ inputs \in SeqsUpTo(PoolPaths, MaxFiles)
    /\ output \in EnginePaths
    /\ fs \in EngineFs0
    /\ fs0 = fs
    /\ pc = "idle"
    /\ schema = <<>>
    /\ vi = 0
    /\ si = 0
    /\ handles = {}
    /\ opens = <<>>
    /\ batch = NoBatch
    /\ rows_written = 0
    /\ batch_count = 0
    /\ total_rows = 0
    /\ writer = "none"
    /\ result = Pending
    /\ frame = <<>>
    /\ probe = NoProbe
    /\ root = NoPath
    /\ recursive = FALSE
    /\ located = NotLocated
    /\ cli_pc = "api"
    /\ exit = NotExited

\* a caller of the library API invokes consolidate_parquet_files
Call ==
    /\ pc = "idle"
    /\ cli_pc = "api"
    /\ pc' = "entry"
    /\ UNCHANGED <<probe, driver, frame, variant, inputs, output, fs, fs0, schema,
                   vi, si, handles, opens, batch, rows_written, batch_count,
                   total_rows, writer, result>>

\* return Err(e): every local is dropped, the writer is dropped unclosed
Fail(e) ==
    /\ pc' = "failed"
    /\ result' = Failure(e)
    /\ handles' = {}
    /\ batch' = NoBatch
    /\ writer' = IF writer = "open" THEN "dropped" ELSE writer

\* CheckEmpty without the bail: an empty list goes on to create the output
CheckEmpty_creates ==
    /\ pc = "entry"
    /\ variant = "main"
    /\ pc' = IF inputs = <<>> THEN "create" ELSE "first"
    /\ UNCHANGED <<result, handles, batch, writer, opens>>
    /\ UNCHANGED <<probe, driver, frame, variant, inputs, output, fs, fs0, schema,
                   vi, si, rows_written, batch_count, total_rows>>

\* main.rs 112-114
CheckEmpty ==
    /\ pc = "entry"
    /\ variant = "main"
    /\ IF inputs = <<>>
       THEN /\ Fail(Err("NoInputFiles", NoPath))
            /\ UNCHANGED <<opens>>
       ELSE /\ pc' = "first"
            /\ UNCHANGED <<result, handles, batch, writer, opens>>
    /\ UNCHANGED <<probe, driver, frame, variant, inputs, output, fs, fs0, schema, vi, si,
                   rows_written, batch_count, total_rows>>

\* main.rs 156-160
OpenFirst ==
    /\ pc = "first"
    /\ \E o \in ReadOutcomes(inputs[1]) :
         /\ opens' = Append(opens, [phase |-> "validate", idx |-> 0])
         /\ CASE o = "ok" ->
                   /\ schema' = fs[inputs[1]].schema
                   /\ handles' = handles \cup {[phase |-> "first", idx |-> 0]}
                   /\ vi' = 1
                   /\ pc' = "val_loop"
                   /\ UNCHANGED <<result, batch, writer>>
              [] o = "open" ->
                   /\ Fail(Err("OpenFirst", inputs[1]))
                   /\ UNCHANGED <<schema, vi>>
              [] o = "parse" ->
                   /\ Fail(Err("Parquet", NoPath))
                   /\ UNCHANGED <<schema, vi>>
    /\ UNCHANGED <<probe, driver, frame, variant, inputs, output, fs, fs0, si,
                   rows_written, batch_count, total_rows>>

\* main.rs 168-172: the loop head and the open of inputs[vi]
ValidateOpen ==
    /\ pc = "val_loop"
    /\ vi < Len(inputs)
    /\ \E o \in ReadOutcomes(inputs[vi + 1]) :
         /\ opens' = Append(opens, [phase |-> "validate", idx |-> vi])
         /\ CASE o = "ok" ->
                   /\ handles' = handles \cup {[phase |-> "validate", idx |-> vi]}
                   /\ pc' = "val_compare"
                   /\ UNCHANGED <<result, batch, writer>>
              [] o = "open" -> Fail(Err("Open", inputs[vi + 1]))
              [] o = "parse" -> Fail(Err("Parquet", NoPath))
    /\ UNCHANGED <<probe, driver, frame, variant, inputs, output, fs, fs0, schema, vi, si,
                   rows_written, batch_count, total_rows>>

\* the number main.rs prints for the file at zero-based position i of the
\* iterator skip(1).enumerate(), whose idx is i - 1: idx + 2
\* the position reported as the index into the input list
ReportedPosition_zero_based(i) == i
ReportedPosition(i) == (i - 1) + 2

\* ValidateCompare that does not bail on a mismatch
ValidateCompare_keep_scanning ==
    /\ pc = "val_compare"
    /\ handles' = handles \ {[phase |-> "validate", idx |-> vi]}
    /\ vi' = vi + 1
    /\ pc' = "val_loop"
    /\ UNCHANGED <<result, batch, writer>>
    /\ UNCHANGED <<probe, driver, frame, variant, inputs, output, fs, fs0, schema,
                   si, opens, rows_written, batch_count, total_rows>>

\* main.rs 173-181
ValidateCompare ==
    /\ pc = "val_compare"
    /\ LET file_schema == fs[inputs[vi + 1]].schema IN
       IF ~schemas_compatible(schema, file_schema)
       THEN /\ Fail([Err("SchemaMismatch", inputs[vi + 1]) EXCEPT
                        !.position = ReportedPosition(vi), !.of = Len(inputs),
                        !.has_schemas = TRUE,
                        !.expected = schema, !.found = file_schema])
            /\ UNCHANGED vi
       ELSE /\ handles' = handles \ {[phase |-> "validate", idx |-> vi]}
            /\ vi' = vi + 1
            /\ pc' = "val_loop"
            /\ UNCHANGED <<result, batch, writer>>
    /\ UNCHANGED <<probe, driver, frame, variant, inputs, output, fs, fs0, schema, si, opens,
                   rows_written, batch_count, total_rows>>

\* ValidateReturn that may leave the loop before the last input
ValidateReturn_early ==
    /\ pc = "val_loop"
    /\ handles' = {}
    /\ pc' = "create"
    /\ UNCHANGED <<probe, driver, frame, variant, inputs, output, fs, fs0, schema,
                   vi, si, opens, batch, rows_written, batch_count, total_rows,
                   writer, result>>

\* main.rs 183-187: the loop is over, Ok(schema); the first builder is dropped
ValidateReturn ==
    /\ pc = "val_loop"
    /\ vi >= Len(inputs)
    /\ handles' = {}
    /\ pc' = "create"
    /\ UNCHANGED <<probe, driver, frame, variant, inputs, output, fs, fs0, schema, vi, si, opens,
                   batch, rows_written, batch_count, total_rows, writer, result>>

\* outcomes of File::create followed by ArrowWriter::try_new
CreateOutcomes ==
    IF fs[output].kind = "dir" THEN {"create"} ELSE {"ok", "create", "writer"}

\* main.rs 120-129
CreateOutput ==
    /\ pc = "create"
    /\ \E o \in CreateOutcomes :
         CASE o = "ok" ->
                /\ fs' = [fs EXCEPT ![output] = PartialFile(schema)]
                /\ writer' = "open"
                /\ total_rows' = 0
                /\ si' = 0
                /\ pc' = "stream_loop"
                /\ UNCHANGED <<result, handles, batch>>
           [] o = "create" ->
                /\ Fail(Err("CreateOutput", output))
                /\ UNCHANGED <<fs, total_rows, si>>
           [] o = "writer" ->
                /\ fs' = [fs EXCEPT ![output] = PartialFile(<<>>)]
                /\ Fail(Err("Parquet", NoPath))
                /\ UNCHANGED <<total_rows, si>>
    /\ UNCHANGED <<probe, driver, frame, variant, inputs, output, fs0, schema, vi, opens,
                   rows_written, batch_count>>

\* main.rs 132-137, 195-202: the loop head and the open of inputs[si]
ProcessOpen ==
    /\ pc = "stream_loop"
    /\ si < Len(inputs)
    /\ \E o \in ReadOutcomes(inputs[si + 1]) :
         /\ opens' = Append(opens, [phase |-> "stream", idx |-> si])
         /\ CASE o = "ok" ->
                   /\ handles' = handles \cup {[phase |-> "stream", idx |-> si]}
                   /\ rows_written' = 0
                   /\ batch_count' = 0
                   /\ pc' = "read"
                   /\ UNCHANGED <<result, batch, writer>>
              [] o = "open" ->
                   /\ Fail(Err("Open", inputs[si + 1]))
                   /\ UNCHANGED <<rows_written, batch_count>>
              [] o = "parse" ->
                   /\ Fail(Err("Parquet", NoPath))
                   /\ UNCHANGED <<rows_written, batch_count>>
    /\ UNCHANGED <<probe, driver, frame, variant, inputs, output, fs, fs0, schema, vi, si, total_rows>>

\* main.rs 204-209: the reader yields its next batch
ReadBatch ==
    /\ pc = "read"
    /\ batch_count < Len(fs[inputs[si + 1]].batches)
    /\ \E ok \in BOOLEAN :
         IF ok
         THEN /\ batch' = fs[inputs[si + 1]].batches[batch_count + 1]
              /\ rows_written' = rows_written + batch'.rows
              /\ batch_count' = batch_count + 1
              /\ pc' = "write"
              /\ UNCHANGED <<result, handles, writer>>
         ELSE /\ Fail(Err("ReadBatch", inputs[si + 1]))
              /\ UNCHANGED <<rows_written, batch_count>>
    /\ UNCHANGED <<probe, driver, frame, variant, inputs, output, fs, fs0, schema, vi, si, opens,
                   total_rows>>

\* a writer that loses the batch, and one that puts it first
WriterAppend_drop(written, b) == written
WriterAppend_front(written, b) == <<b>> \o written

\* ArrowWriter::write: the batch goes after everything written so far
WriterAppend(written, b) == Append(written, b)

\* WriteBatch that records a write failure and goes on with the next batch
WriteBatch_skips_failed ==
    /\ pc = "write"
    /\ \E ok \in BOOLEAN :
         IF ok
         THEN /\ fs' = [fs EXCEPT ![output].batches = WriterAppend(@, batch)]
              /\ UNCHANGED result
         ELSE /\ result' = Failure([Err("WriteBatch", inputs[si + 1]) EXCEPT
                                       !.batch = batch_count])
              /\ UNCHANGED fs
    /\ batch' = NoBatch
    /\ pc' = "read"
    /\ UNCHANGED <<handles, writer>>
    /\ UNCHANGED <<probe, driver, frame, variant, inputs, output, fs0, schema, vi, si, opens,
                   rows_written, batch_count, total_rows>>

\* main.rs 211-212
WriteBatch ==
    /\ pc = "write"
    /\ \E ok \in BOOLEAN :
         IF ok
         THEN /\ fs' = [fs EXCEPT ![output].batches = WriterAppend(@, batch)]
              /\ batch' = NoBatch
              /\ pc' = "read"
              /\ UNCHANGED <<result, handles, writer>>
         ELSE /\ Fail([Err("WriteBatch", inputs[si + 1]) EXCEPT !.batch = batch_count])
              /\ UNCHANGED fs
    /\ UNCHANGED <<probe, driver, frame, variant, inputs, output, fs0, schema, vi, si, opens,
                   rows_written, batch_count, total_rows>>

\* ProcessReturn that returns Ok(()) after the last file, the writer never closed
ProcessReturn_finishes ==
    /\ pc = "read"
    /\ batch_count >= Len(fs[inputs[si + 1]].batches)
    /\ handles' = {}
    /\ total_rows' = total_rows + rows_written
    /\ si' = si + 1
    /\ IF si + 1 >= Len(inputs)
       THEN /\ pc' = "done"
            /\ result' = Ok(Unit)
            /\ writer' = "dropped"
       ELSE /\ pc' = "stream_loop"
            /\ UNCHANGED <<writer, result>>
    /\ UNCHANGED <<probe, driver, frame, variant, inputs, output, fs, fs0, schema, vi, opens,
                   batch, rows_written, batch_count>>

\* main.rs 213-219, 137-143: the reader is exhausted, Ok(rows_written)
ProcessReturn ==
    /\ pc = "read"
    /\ batch_count >= Len(fs[inputs[si + 1]].batches)
    /\ handles' = {}
    /\ total_rows' = total_rows + rows_written
    /\ si' = si + 1
    /\ pc' = "stream_loop"
    /\ UNCHANGED <<probe, driver, frame, variant, inputs, output, fs, fs0, schema, vi, opens,
                   batch, rows_written, batch_count, writer, result>>

\* CloseWriter that may close between two input files
CloseWriter_any_time ==
    /\ pc = "stream_loop"
    /\ fs' = [fs EXCEPT ![output].valid = TRUE]
    /\ writer' = "closed"
    /\ result' = Ok(Unit)
    /\ pc' = "done"
    /\ UNCHANGED <<handles, batch>>
    /\ UNCHANGED <<probe, driver, frame, variant, inputs, output, fs0, schema, vi, si, opens,
                   rows_written, batch_count, total_rows>>

\* main.rs 145-151
CloseWriter ==
    /\ pc = "stream_loop"
    /\ si >= Len(inputs)
    /\ \E ok \in BOOLEAN :
         IF ok
         THEN /\ fs' = [fs EXCEPT ![output].valid = TRUE]
              /\ writer' = "closed"
              /\ result' = Ok(Unit)
              /\ pc' = "done"
              /\ UNCHANGED <<handles, batch>>
         ELSE /\ Fail(Err("Parquet", NoPath))
              /\ UNCHANGED fs
    /\ UNCHANGED <<probe, driver, frame, variant, inputs, output, fs0, schema, vi, si, opens,
                   rows_written, batch_count, total_rows>>

\* ------------------------------------------- src/consolidator.rs (polars)
\* a polars schema has names and dtypes only; written back, every column is
\* optional
PolarsSchema(s) == [i \in DOMAIN s |-> Field(s[i].name, s[i].data_type, TRUE)]

\* concat checks every frame against the first one: same width, same names
\* (to_supertypes casts differing dtypes)
RECURSIVE NamesMatchFrom(_, _, _)
NamesMatchFrom(s1, s2, i) ==
    IF i > Len(s1) THEN TRUE
    ELSE IF s1[i].name # s2[i].name THEN FALSE
    ELSE NamesMatchFrom(s1, s2, i + 1)

ConcatAccepts(f, paths) ==
    \A i \in 2..Len(paths) :
       /\ Len(f[paths[i]].schema) = Len(f[paths[1]].schema)
       /\ NamesMatchFrom(f[paths[1]].schema, f[paths[i]].schema, 1)

RECURSIVE ConcatBatches(_, _)
ConcatBatches(f, paths) ==
    IF paths = <<>> THEN <<>>
    ELSE f[Head(paths)].batches \o ConcatBatches(f, Tail(paths))

\* consolidator.rs 86-90
LibCheckEmpty ==
    /\ pc = "entry"
    /\ variant = "lib"
    /\ IF inputs = <<>>
       THEN Fail(Err("NoInputFiles", NoPath))
       ELSE /\ pc' = "lib_scan"
            /\ UNCHANGED <<result, handles, batch, writer>>
    /\ UNCHANGED <<probe, driver, frame, variant, inputs, output, fs, fs0, schema, vi,
                   si, opens, rows_written, batch_count, total_rows>>

\* consolidator.rs 92-99: scan_parquet reads the footer of inputs[si]
LibScan ==
    /\ pc = "lib_scan"
    /\ si < Len(inputs)
    /\ opens' = Append(opens, [phase |-> "scan", idx |-> si])
    /\ \E o \in ReadOutcomes(inputs[si + 1]) :
         IF o = "ok"
         THEN /\ si' = si + 1
              /\ UNCHANGED <<pc, result, handles, batch, writer>>
         ELSE /\ Fail(Err("Polars", NoPath))
              /\ UNCHANGED si
    /\ UNCHANGED <<probe, driver, frame, variant, inputs, output, fs, fs0, schema, vi,
                   rows_written, batch_count, total_rows>>

\* consolidator.rs 101-105: concat, then collect materializes every input
LibCollect ==
    /\ pc = "lib_scan"
    /\ si >= Len(inputs)
    /\ IF ~ConcatAccepts(fs, inputs)
       THEN /\ Fail(Err("Concatenate", NoPath))
            /\ UNCHANGED <<frame, schema>>
       ELSE \E ok \in BOOLEAN :
              IF ok
              THEN /\ frame' = ConcatBatches(fs, inputs)
                   /\ schema' = PolarsSchema(fs[inputs[1]].schema)
                   /\ pc' = "lib_create"
                   /\ UNCHANGED <<result, handles, batch, writer>>
              ELSE /\ Fail(Err("LazyComputation", NoPath))
                   /\ UNCHANGED <<frame, schema>>
    /\ UNCHANGED <<probe, driver, variant, inputs, output, fs, fs0, vi, si, opens,
                   rows_written, batch_count, total_rows>>

\* consolidator.rs 111
LibCreate ==
    /\ pc = "lib_create"
    /\ \E o \in CreateOutcomes \ {"writer"} :
         IF o = "ok"
         THEN /\ fs' = [fs EXCEPT ![output] = PartialFile(schema)]
              /\ writer' = "open"
              /\ pc' = "lib_write"
              /\ UNCHANGED <<result, handles, batch, frame>>
         ELSE /\ Fail(Err("Io", NoPath))
              /\ frame' = <<>>
              /\ UNCHANGED fs
    /\ UNCHANGED <<probe, driver, variant, inputs, output, fs0, schema, vi, si, opens,
                   rows_written, batch_count, total_rows>>

\* consolidator.rs 112-117
LibFinish ==
    /\ pc = "lib_write"
    /\ frame' = <<>>
    /\ \E ok \in BOOLEAN :
         IF ok
         THEN /\ fs' = [fs EXCEPT ![output] = ParquetFile(schema, frame)]
              /\ writer' = "closed"
              /\ result' = Ok(Unit)
              /\ pc' = "done"
              /\ UNCHANGED <<handles, batch>>
         ELSE /\ Fail(Err("WriteConsolidated", NoPath))
              /\ UNCHANGED fs
    /\ UNCHANGED <<probe, driver, variant, inputs, output, fs0, schema, vi, si, opens,
                   rows_written, batch_count, total_rows>>

\* ------------------------------------------------------ find_parquet_files
\* the results find_parquet_files can return (one per enumeration order)
find_parquet_files_lib(f, input_path, rec) ==
    IF f[input_path].kind = "file"
    THEN IF is_parquet_file(input_path)
         THEN {Located(<<input_path>>)}
         ELSE {LocateFailure(Err("NotParquetFile", input_path))}
    ELSE IF f[input_path].kind = "dir"
    THEN {Located(Collect(f, w)) : w \in WalkOrders(f, input_path, WalkDepth(f, rec))}
    ELSE {Located(<<>>)}

\* find_parquet_files that hands a file root to the walker like a directory
find_parquet_files_walks_file(f, input_path, rec) ==
    IF f[input_path].kind = "absent"
    THEN {LocateFailure(Err("PathNotFound", input_path))}
    ELSE {Located(sort(Collect(f, w))) :
             w \in WalkOrders(f, input_path, WalkDepth(f, rec))}

find_parquet_files(f, input_path, rec) ==
    IF f[input_path].kind = "absent"
    THEN {LocateFailure(Err("PathNotFound", input_path))}
    ELSE IF f[input_path].kind = "file"
    THEN IF is_parquet_file(input_path)
         THEN {Located(sort(<<input_path>>))}
         ELSE {LocateFailure(Err("NotParquetFile", input_path))}
    ELSE IF f[input_path].kind = "dir"
    THEN {Located(sort(Collect(f, w))) :
             w \in WalkOrders(f, input_path, WalkDepth(f, rec))}
    ELSE {Located(sort(<<>>))}

\* ------------------------------------------------------ main.rs: fn main
Exit(c, e, n) == [code |-> c, err |-> e, count |-> n]

\* main.rs 45: the error of find_parquet_files is returned from main
CliFind ==
    /\ cli_pc = "find"
    /\ variant = "main"
    /\ \E l \in find_parquet_files(fs, root, recursive) :
         /\ located' = l
         /\ IF l.status = "err"
            THEN /\ exit' = Exit(1, l.err, 0)
                 /\ cli_pc' = "exit"
            ELSE /\ cli_pc' = "check"
                 /\ UNCHANGED exit
    /\ UNCHANGED <<probe, root, recursive, frame, variant, inputs, output, fs, fs0, pc,
                   schema, vi, si, handles, opens, batch, rows_written,
                   batch_count, total_rows, writer, result>>

\* a call of the library's find_parquet_files (consolidator.rs 24-48)
LibFind ==
    /\ cli_pc = "find"
    /\ variant = "lib"
    /\ \E l \in find_parquet_files_lib(fs, root, recursive) :
         /\ located' = l
         /\ cli_pc' = "returned"
    /\ UNCHANGED <<probe, root, recursive, exit, frame, variant, inputs, output, fs, fs0,
                   pc, schema, vi, si, handles, opens, batch, rows_written,
                   batch_count, total_rows, writer, result>>

\* a driver that hands whatever was located to consolidate_parquet_files
CliCheckEmpty_no_check ==
    /\ cli_pc = "check"
    /\ inputs' = located.files
    /\ pc' = "entry"
    /\ cli_pc' = "consolidate"
    /\ UNCHANGED <<probe, root, recursive, located, exit, frame, variant, output, fs,
                   fs0, schema, vi, si, handles, opens, batch, rows_written,
                   batch_count, total_rows, writer, result>>

\* main.rs 47-59: bail on an empty list, else call consolidate_parquet_files
CliCheckEmpty ==
    /\ cli_pc = "check"
    /\ IF located.files = <<>>
       THEN /\ exit' = Exit(1, Err("NoParquetFilesFound", NoPath), 0)
            /\ cli_pc' = "exit"
            /\ UNCHANGED <<inputs, pc>>
       ELSE /\ inputs' = located.files
            /\ pc' = "entry"
            /\ cli_pc' = "consolidate"
            /\ UNCHANGED exit
    /\ UNCHANGED <<probe, root, recursive, located, frame, variant, output, fs, fs0,
                   schema, vi, si, handles, opens, batch, rows_written,
                   batch_count, total_rows, writer, result>>

\* main.rs 59-64: consolidate_parquet_files has returned
CliReturn ==
    /\ cli_pc = "consolidate"
    /\ pc \in {"done", "failed"}
    /\ exit' = IF result.status = "ok"
               THEN Exit(0, NoErr, Len(located.files))
               ELSE Exit(1, result.err, 0)
    /\ cli_pc' = "exit"
    /\ UNCHANGED <<probe, root, recursive, located, frame, variant, inputs, output, fs,
                   fs0, pc, schema, vi, si, handles, opens, batch, rows_written,
                   batch_count, total_rows, writer, result>>

NotParquet == [kind |-> "file", valid |-> FALSE, schema |-> <<>>, batches |-> <<>>]

CliFs0 ==
    { [p \in AllPaths |->
          IF p = PathD THEN DirNode
          ELSE IF p = PathA THEN a
          ELSE IF p = PathB THEN b
          ELSE IF p = PathTxt THEN t
          ELSE IF p = PathS THEN sub[1]
          ELSE IF p = PathE THEN sub[2]
          ELSE Absent] :
        a \in {Absent, ParquetFile(TestSchema, BatchesOf(PathA, 1))},
        b \in {Absent} \cup {ParquetFile(sc, BatchesOf(PathB, 1)) :
                                 sc \in {TestSchema, ExtraColumnSchema}},
        t \in {Absent, NotParquet},
        sub \in {<<Absent, Absent>>, <<DirNode, Absent>>,
                 <<DirNode, ParquetFile(TestSchema, BatchesOf(PathE, 1))>>} }

InitCli ==
    /\ variant \in {"main", "lib"}
    /\ root \in {PathD, PathA, PathB, PathTxt, PathMissing}
    /\ recursive \in BOOLEAN
    /\ output \in {PathOutNew, PathA}
    /\ fs \in CliFs0
    /\ fs0 = fs
    /\ inputs = <<>>
    /\ located = NotLocated
    /\ cli_pc = "find"
    /\ exit = NotExited
    /\ pc = "idle"
    /\ schema = <<>>
    /\ vi = 0
    /\ si = 0
    /\ handles = {}
    /\ opens = <<>>
    /\ batch = NoBatch
    /\ rows_written = 0
    /\ batch_count = 0
    /\ total_rows = 0
    /\ writer = "none"
    /\ result = Pending
    /\ frame = <<>>
    /\ probe = NoProbe

Next ==
    \/ Call
    \/ CheckEmpty
    \/ OpenFirst
    \/ ValidateOpen
    \/ ValidateCompare
    \/ ValidateReturn
    \/ CreateOutput
    \/ ProcessOpen
    \/ ReadBatch
    \/ WriteBatch
    \/ ProcessReturn
    \/ CloseWriter
    \/ LibCheckEmpty
    \/ LibScan
    \/ LibCollect
    \/ LibCreate
    \/ LibFinish

Spec == Init /\ [][Next]_vars

NextCli ==
    \/ CliFind
    \/ LibFind
    \/ CliCheckEmpty
    \/ CliReturn
    \/ CheckEmpty
    \/ OpenFirst
    \/ ValidateOpen
    \/ ValidateCompare
    \/ ValidateReturn
    \/ CreateOutput
    \/ ProcessOpen
    \/ ReadBatch
    \/ WriteBatch
    \/ ProcessReturn
    \/ CloseWriter

SpecCli == InitCli /\ [][NextCli]_vars

\* ------------------------------------------- schemas_compatible on its own
FieldNames == {"id", "ID"}
DataTypes == {"Int32", "Utf8"}
Fields == {Field(n, t, nl) : n \in FieldNames, t \in DataTypes, nl \in BOOLEAN}
Schemas == SeqsUpTo(Fields, MaxFields)

InitSchema ==
    /\ probe \in {Probe(a, b) : a \in Schemas, b \in Schemas}
    /\ variant = "main"
    /\ root = NoPath
    /\ recursive = FALSE
    /\ output = PathOutNew
    /\ fs = [p \in AllPaths |-> Absent]
    /\ fs0 = fs
    /\ inputs = <<>>
    /\ located = NotLocated
    /\ cli_pc = "api"
    /\ exit = NotExited
    /\ pc = "idle"
    /\ schema = <<>>
    /\ vi = 0
    /\ si = 0
    /\ handles = {}
    /\ opens = <<>>
    /\ batch = NoBatch
    /\ rows_written = 0
    /\ batch_count = 0
    /\ total_rows = 0
    /\ writer = "none"
    /\ result = Pending
    /\ frame = <<>>

\* main.rs 222-235
CallSchemasCompatible ==
    /\ ~probe.called
    /\ probe' = [probe EXCEPT !.called = TRUE,
                              !.ret = schemas_compatible(probe.schema1, probe.schema2)]
    /\ UNCHANGED <<driver, frame, variant, inputs, output, fs, fs0, pc, schema,
                   vi, si, handles, opens, batch, rows_written, batch_count,
                   total_rows, writer, result>>

NextSchema == CallSchemasCompatible

SpecSchema == InitSchema /\ [][NextSchema]_vars

\* --------------------------------------------- is_parquet_file on its own
MaxStem == 2

\* every spelling of "parquet" in upper and lower case letters
CaseVariants ==
    {[i \in 1..Len(ParquetLower) |->
         IF i \in U THEN ParquetUpper[i] ELSE ParquetLower[i]] :
       U \in SUBSET (1..Len(ParquetLower))}

\* no extension text, near misses of "parquet", another extension
OtherExts ==
    {<<>>, SubSeq(ParquetLower, 1, 6), ParquetLower \o <<116>>,
     <<112, 97, 114, 107, 117, 101, 116>>, <<116, 120, 116>>}

Stems == SeqsUpTo({97, Dot}, MaxStem)

FileNames ==
    {st \o j \o e : st \in Stems, j \in {<<>>, <<Dot>>},
                     e \in CaseVariants \cup OtherExts} \ {<<>>}

\* the empty path, a bare file name, a file name below a directory
ProbePaths ==
    {<<>>} \cup {<<n>> : n \in FileNames} \cup {<<NameS, n>> : n \in FileNames}

PathProbe(p) == [path |-> p, called |-> FALSE, ret |-> FALSE]

InitExt ==
    /\ probe \in {PathProbe(p) : p \in ProbePaths}
    /\ variant = "main"
    /\ root = NoPath
    /\ recursive = FALSE
    /\ output = PathOutNew
    /\ fs = [p \in AllPaths |-> Absent]
    /\ fs0 = fs
    /\ inputs = <<>>
    /\ located = NotLocated
    /\ cli_pc = "api"
    /\ exit = NotExited
    /\ pc = "idle"
    /\ schema = <<>>
    /\ vi = 0
    /\ si = 0
    /\ handles = {}
    /\ opens = <<>>
    /\ batch = NoBatch
    /\ rows_written = 0
    /\ batch_count = 0
    /\ total_rows = 0
    /\ writer = "none"
    /\ result = Pending
    /\ frame = <<>>

\* main.rs 100-105
CallIsParquetFile ==
    /\ ~probe.called
    /\ probe' = [probe EXCEPT !.called = TRUE, !.ret = is_parquet_file(probe.path)]
    /\ UNCHANGED <<driver, frame, variant, inputs, output, fs, fs0, pc, schema,
                   vi, si, handles, opens, batch, rows_written, batch_count,
                   total_rows, writer, result>>

NextExt == CallIsParquetFile

SpecExt == InitExt /\ [][NextExt]_vars

TypeOK == pc \in {"idle", "entry", "first", "val_loop", "val_compare", "create",
                  "stream_loop", "read", "write", "lib_scan", "lib_create",
                  "lib_write", "done", "failed"}

\* ================================================================ properties
SameNamesTypes(a, b) ==
    /\ Len(a) = Len(b)
    /\ \A i \in 1..Len(a) : a[i].name = b[i].name /\ a[i].data_type = b[i].data_type

NullabilityOnlyDiffers(a, b) == SameNamesTypes(a, b) /\ a # b

Phase1Pcs == {"entry", "first", "val_loop", "val_compare"}
UnreadableKinds == {"OpenFirst", "Open", "Parquet"}
IoErrorKinds == {"OpenFirst", "Open", "Parquet", "CreateOutput", "ReadBatch",
                 "WriteBatch", "Polars", "LazyComputation", "Io",
                 "WriteConsolidated"}

CanonicalOnDisk == fs0[inputs[1]].schema
SchemaOnDisk(i) == fs0[inputs[i + 1]].schema
Incompatible(i) == ~SameNamesTypes(CanonicalOnDisk, SchemaOnDisk(i))
HasMismatch == \E i \in 1..(Len(inputs) - 1) : Incompatible(i)
FirstMismatch ==
    CHOOSE k \in 1..(Len(inputs) - 1) :
        Incompatible(k) /\ \A j \in 1..(k - 1) : ~Incompatible(j)
AllCompatible == Len(inputs) >= 1 /\ ~HasMismatch
ValidatedInPhase1(i) ==
    \E j \in DOMAIN opens : opens[j] = [phase |-> "validate", idx |-> i]
AllValidated ==
    /\ Len(inputs) >= 1
    /\ vi = Len(inputs)
    /\ pc \notin Phase1Pcs \ {"val_loop"}
    /\ \A i \in 0..(Len(inputs) - 1) : ValidatedInPhase1(i) /\ ~Incompatible(i)
TotalRows == SumRows(ConcatBatches(fs0, inputs))
IsPrefix(a, b) == Len(a) <= Len(b) /\ SubSeq(b, 1, Len(a)) = a

\* C1: in main.rs the output path differs from its state before the run only
\* once every input has been opened in the validation pass and found
\* compatible with the first one; after a failure of the validation pass the
\* output path is exactly as it was (absent stays absent, present is not
\* truncated).
C1_OutputOnlyAfterValidation ==
    variant = "main" =>
        /\ (fs[output] # fs0[output] => AllValidated)
        /\ (pc = "failed" /\ vi < Len(inputs) => fs[output] = fs0[output])

C1_Witness ==
    /\ variant = "main"
    /\ pc = "failed"
    /\ result.err.kind = "SchemaMismatch"
    /\ Len(inputs) = 3
    /\ vi = 2
    /\ output = PathOutOld
    /\ fs[output] = OldOutput

C4_OrderPreserved ==
    variant = "main" =>
        /\ writer = "open" => IsPrefix(fs[output].batches, ConcatBatches(fs0, inputs))
        /\ pc = "done" => fs[output].batches = ConcatBatches(fs0, inputs)

C4_Witness ==
    /\ variant = "main"
    /\ pc = "done"
    /\ inputs = <<PathB, PathA>>
    /\ Len(fs0[PathA].batches) = 2
    /\ Len(fs0[PathB].batches) = 2
    /\ Len(fs[output].batches) = 4

\* C5: schemas_compatible returns true exactly when the two schemas have
\* the same number of fields and the same name and data type at every
\* position.
C5_CompatibleIffSameNamesTypes ==
    probe.called => (probe.ret <=> SameNamesTypes(probe.schema1, probe.schema2))

C5_Witness ==
    /\ probe.called
    /\ ~probe.ret
    /\ Len(probe.schema1) >= 1
    /\ Len(probe.schema2) = Len(probe.schema1) + 1
    /\ SubSeq(probe.schema2, 1, Len(probe.schema1)) = probe.schema1

\* C6 as stated: inputs that agree with the canonical schema in every name
\* and type but differ in nullability never pass validation.
C6_NullabilityRejected ==
    (variant = "main"
       /\ \E i \in 1..(Len(inputs) - 1) :
             NullabilityOnlyDiffers(CanonicalOnDisk, SchemaOnDisk(i)))
    => pc \in {"idle"} \cup Phase1Pcs \cup {"failed"}

\* C6 amended: nullability is not compared; a schema mismatch is only ever
\* raised for two schemas that differ in length or in a name or type at some
\* position, so inputs that differ in nullability alone pass validation.
C6_NullabilityIgnored ==
    variant = "main" =>
        /\ (pc = "failed" /\ result.err.kind = "SchemaMismatch") =>
              ~SameNamesTypes(result.err.expected, result.err.found)
        /\ (AllCompatible /\ pc = "failed") => result.err.kind # "SchemaMismatch"

C6_Witness ==
    /\ variant = "main"
    /\ pc = "create"
    /\ \E i \in 1..(Len(inputs) - 1) :
          NullabilityOnlyDiffers(CanonicalOnDisk, SchemaOnDisk(i))

\* C7: called with an empty list, either consolidate fails with the
\* "No input files provided" error, having opened no file and changed
\* nothing on disk.
C7_EmptyInputRejected ==
    inputs = <<>> =>
        /\ fs = fs0
        /\ opens = <<>>
        /\ handles = {}
        /\ pc \in {"idle", "entry", "failed"}
        /\ pc = "failed" => result = Failure(Err("NoInputFiles", NoPath))

C7_Witness ==
    /\ inputs = <<>>
    /\ variant = "lib"
    /\ pc = "failed"
    /\ result.err.kind = "NoInputFiles"
    /\ output = PathOutOld
    /\ fs[output] = OldOutput

\* C8 as stated: the mismatch error for inputs[i] reports the zero-based
\* index i.
C8_ReportsZeroBasedIndex ==
    (variant = "main" /\ pc = "failed" /\ result.err.kind = "SchemaMismatch") =>
        /\ result.err.position = vi
        /\ inputs[vi + 1] = result.err.file

\* C8 amended: the mismatch error for inputs[i] reports the one-based
\* position i + 1 together with the number of inputs ("file i+1/N"); for
\* two inputs whose second is incompatible it reports 2 of 2.
C8_ReportsOneBasedPosition ==
    (variant = "main" /\ pc = "failed" /\ result.err.kind = "SchemaMismatch") =>
        /\ result.err.position = vi + 1
        /\ result.err.of = Len(inputs)
        /\ inputs[vi + 1] = result.err.file
        /\ Incompatible(vi)

C8_Witness ==
    /\ variant = "main"
    /\ pc = "failed"
    /\ result.err.kind = "SchemaMismatch"
    /\ Len(inputs) = 2
    /\ result.err.position = 2
    /\ result.err.file = inputs[2]

\* C9 as stated: every find_parquet_files fails with the path-not-found
\* error when the root does not exist.
C9_MissingRootFails ==
    (cli_pc \notin {"api", "find"} /\ fs0[root].kind = "absent") =>
        /\ located.status = "err"
        /\ located.err.kind = "PathNotFound"

\* C10 as stated: the command line run on a missing input path exits with
\* the "No parquet files found" error, consolidate never called.
C10_MissingInputReportsNoFilesFound ==
    (variant = "main" /\ cli_pc = "exit" /\ fs0[root].kind = "absent") =>
        /\ exit.code = 1
        /\ exit.err.kind = "NoParquetFilesFound"
        /\ pc = "idle"

\* the last component of the path is  <non-empty prefix> . <ext>  where ext
\* has no dot and spells "parquet" in any mix of upper and lower case
HasParquetExtension(path) ==
    /\ path # <<>>
    /\ LET name == path[Len(path)] IN
       \E k \in 2..Len(name) :
          /\ name[k] = Dot
          /\ Len(name) - k = Len(ParquetLower)
          /\ \A i \in 1..Len(ParquetLower) :
                name[k + i] \in {ParquetLower[i], ParquetUpper[i]}

\* C11: for a root that is a regular file, find_parquet_files (either
\* implementation, either value of the recursive flag) returns exactly
\* [root] when root's extension is "parquet" in any letter case, and the
\* not-a-parquet-file error otherwise.
C11_FileRoot ==
    (located.status # "pending" /\ fs0[root].kind = "file") =>
        IF HasParquetExtension(root)
        THEN located = Located(<<root>>)
        ELSE located = LocateFailure(Err("NotParquetFile", root))

C11_Witness ==
    /\ root = PathB
    /\ recursive
    /\ variant = "main"
    /\ located = Located(<<PathB>>)

\* C12: for a directory root, the list find_parquet_files returns (either
\* implementation) is in strictly ascending order of the full paths, whatever
\* order the filesystem enumerated the entries in.
C12_SortedByFullPath ==
    (located.status = "ok" /\ fs0[root].kind = "dir") =>
        \A i, j \in 1..Len(located.files) :
            i < j => PathLess(located.files[i], located.files[j])

Range(s) == {s[i] : i \in DOMAIN s}

\* the regular files below directory r (immediate children only unless rec)
\* whose extension is "parquet" in any letter case
Matching(f, r, rec) ==
    {p \in DOMAIN f : /\ f[p].kind = "file"
                      /\ HasParquetExtension(p)
                      /\ Len(p) > Len(r)
                      /\ SubSeq(p, 1, Len(r)) = r
                      /\ (rec \/ Len(p) = Len(r) + 1)}

Finder(f, r, rec) ==
    IF variant = "main" THEN find_parquet_files(f, r, rec)
    ELSE find_parquet_files_lib(f, r, rec)

\* C13: for a directory root, recursive=false returns exactly the matching
\* regular files that are immediate children of the root, recursive=true
\* exactly those of the whole subtree, each once; the non-recursive result is
\* a subset of the recursive one; nothing that does not match is returned.
C13_ExactMatches ==
    (located.status = "ok" /\ fs0[root].kind = "dir") =>
        /\ Range(located.files) = Matching(fs0, root, recursive)
        /\ Len(located.files) = Cardinality(Matching(fs0, root, recursive))
        /\ \A shallow \in Finder(fs0, root, FALSE), deep \in Finder(fs0, root, TRUE) :
              Range(shallow.files) \subseteq Range(deep.files)

C13_Witness ==
    /\ root = PathD
    /\ ~recursive
    /\ fs0[PathE].kind = "file"
    /\ fs0[PathTxt].kind = "file"
    /\ located = Located(<<PathA, PathB>>)

\* C14: is_parquet_file(path) is true exactly when the path has an extension
\* whose lowercase form is "parquet": names without a dot ("a") or ending in
\* a dot ("a.") are rejected, "a.PARQUET" and "a.Parquet" are accepted.
C14_TrueIffParquetExtension ==
    probe.called =>
        /\ probe.ret <=> HasParquetExtension(probe.path)
        /\ probe.path \in {<<<<97>>>>, <<<<97, Dot>>>>} => ~probe.ret
        /\ probe.path = <<<<97, Dot>> \o ParquetUpper>> => probe.ret

C14_Witness ==
    /\ probe.called
    /\ probe.ret
    /\ probe.path = <<NameS, <<97, Dot, 80>> \o Tail(ParquetLower)>>

\* C15: on a directory with no matching file find_parquet_files succeeds
\* with the empty list; the command line never calls consolidate with an empty
\* list: it exits with "No parquet files found" before the engine starts, and
\* the output file is not created.
C15_EmptyMatchNeverConsolidated ==
    /\ (located.status # "pending" /\ fs0[root].kind = "dir"
            /\ Matching(fs0, root, recursive) = {})
          => located = Located(<<>>)
    /\ (variant = "main" /\ located = Located(<<>>) /\ cli_pc \notin {"find", "check"})
          => /\ exit = Exit(1, Err("NoParquetFilesFound", NoPath), 0)
             /\ pc = "idle"
             /\ fs = fs0
             /\ opens = <<>>
             /\ writer = "none"
    /\ pc # "idle" => inputs # <<>>

C15_Witness ==
    /\ variant = "main"
    /\ root = PathD
    /\ fs0[PathTxt].kind = "file"
    /\ output = PathOutNew
    /\ located = Located(<<>>)
    /\ cli_pc = "exit"
    /\ exit.err.kind = "NoParquetFilesFound"
    /\ fs[output].kind = "absent"

\* the state of the engine run named by the state machine of main.rs
\* consolidate_parquet_files: Idle until it is called; ValidatingSchemas from
\* its first statement (the empty-list check) to the return of
\* get_and_validate_schema; Streaming from File::create to the end of the
\* loop over the inputs; Finalizing at writer.close()
Phase ==
    CASE pc = "idle" -> "Idle"
      [] pc \in Phase1Pcs -> "ValidatingSchemas"
      [] pc \in {"create", "read", "write"} -> "Streaming"
      [] pc = "stream_loop" -> IF si < Len(inputs) THEN "Streaming" ELSE "Finalizing"
      [] pc = "done" -> "Done"
      [] pc = "failed" -> "Failed"
      [] OTHER -> "Library"

PhaseTransitions ==
    {<<"Idle", "ValidatingSchemas">>, <<"ValidatingSchemas", "Streaming">>,
     <<"Streaming", "Finalizing">>, <<"Finalizing", "Done">>,
     <<"ValidatingSchemas", "Failed">>, <<"Streaming", "Failed">>,
     <<"Finalizing", "Failed">>}

engine == <<inputs, output, fs, pc, schema, vi, si, handles, opens, batch,
            rows_written, batch_count, total_rows, writer, result>>

\* C16: every step of a run of main.rs either stays in its phase or follows
\* Idle -> ValidatingSchemas -> Streaming -> Finalizing -> Done, or goes to
\* Failed from ValidatingSchemas, Streaming or Finalizing; Streaming is
\* entered only when every input passed validation; once Done or Failed the
\* run takes no further step.
C16_PhaseOrder ==
    [][variant = "main" =>
          /\ Phase' # Phase => <<Phase, Phase'>> \in PhaseTransitions
          /\ (Phase' = "Streaming" /\ Phase # "Streaming") => AllValidated'
          /\ Phase \in {"Done", "Failed"} => UNCHANGED engine]_vars

C16_Witness ==
    /\ variant = "main"
    /\ Len(inputs) = 2
    /\ inputs[1] # inputs[2]
    /\ Len(fs[output].batches) >= 2
    /\ Phase = "Done"

\* every input has been opened by process_single_file and every batch of
\* every input is in the output
AllStreamed ==
    /\ si = Len(inputs)
    /\ \A i \in 0..(Len(inputs) - 1) : [phase |-> "stream", idx |-> i] \in Range(opens)
    /\ fs[output].batches = ConcatBatches(fs0, inputs)

\* C17: in a run of main.rs the writer is created once and closed at most
\* once; it is closed only when every input has been streamed to its last
\* batch; a successful run has closed it (the output is a complete file); a
\* failed run has not, and when it failed after the writer was created the
\* output is left on disk without its footer.
C17_FinalizedOnceAtEnd ==
    [][variant = "main" =>
          /\ (writer' = "open" /\ writer # "open") => writer = "none"
          /\ (writer' = "closed" /\ writer # "closed") => (writer = "open" /\ AllStreamed)
          /\ writer = "closed" => UNCHANGED <<writer, fs>>
          /\ pc' = "done" => (writer' = "closed" /\ fs'[output].valid)
          /\ pc' = "failed" =>
                /\ writer' # "closed"
                /\ writer' = "dropped" => (fs'[output].kind = "file" /\ ~fs'[output].valid)]_vars

C17_Witness ==
    /\ variant = "main"
    /\ pc = "failed"
    /\ result.err.kind = "ReadBatch"
    /\ writer = "dropped"
    /\ Len(fs[output].batches) >= 1
    /\ ~fs[output].valid

BatchFailure ==
    result.status = "err" /\ result.err.kind \in {"ReadBatch", "WriteBatch"}

\* what a run that failed on a batch of inputs[si] has done: it has returned
\* the error; inputs[si] was opened for streaming once and nothing was opened
\* after it; the output holds the inputs before it and the batches of
\* inputs[si] before the failing one, and not one more
AbortedAtBatch ==
    /\ pc = "failed"
    /\ si < Len(inputs)
    /\ result.err.file = inputs[si + 1]
    /\ opens[Len(opens)] = [phase |-> "stream", idx |-> si]
    /\ Cardinality({j \in DOMAIN opens : opens[j] = [phase |-> "stream", idx |-> si]}) = 1
    /\ LET done == IF result.err.kind = "ReadBatch" THEN batch_count ELSE batch_count - 1
       IN  fs[output].batches =
              ConcatBatches(fs0, SubSeq(inputs, 1, si))
                 \o SubSeq(fs0[inputs[si + 1]].batches, 1, done)
    /\ handles = {}
    /\ batch = NoBatch

\* C18: in main.rs a batch read failure or batch write failure in Phase 2
\* ends the run with that error: the failed file is not opened again, no later
\* input is opened, no further batch is read or written, and the run never
\* takes another step (so it never turns into a success).
C18_BatchFailureAborts ==
    [][variant = "main" =>
          /\ BatchFailure' => AbortedAtBatch'
          /\ BatchFailure => UNCHANGED engine]_vars

C18_Witness ==
    /\ variant = "main"
    /\ pc = "failed"
    /\ result.err.kind = "WriteBatch"
    /\ result.err.batch = 2
    /\ si = 0
    /\ Len(inputs) >= 2
    /\ Len(fs[output].batches) = 1

\* C19: at every point of a run of main.rs at most one input file read
\* handle is open, in the validation phase (the handle of inputs[0] included)
\* and in the streaming phase.
C19_AtMostOneReadHandle ==
    variant = "main" => Cardinality(handles) <= 1

\* the failure of a run of main.rs came from opening or parsing an input
\* file, reading one of its batches, writing one of its batches, or comparing
\* its schema: the kinds that name a file, and the bare parquet error of a
\* reader (one raised while an input was being opened, not by the writer)
ConcernsInput ==
    \/ result.err.kind \in {"OpenFirst", "Open", "SchemaMismatch", "ReadBatch", "WriteBatch"}
    \/ /\ result.err.kind = "Parquet"
       /\ \/ vi < Len(inputs)
          \/ writer = "dropped" /\ si < Len(inputs)

\* the input the run was working on when it failed: the last one it opened
FailedInput == inputs[opens[Len(opens)].idx + 1]

\* C20: every error main.rs consolidate_parquet_files returns about an input
\* file (open failure, schema/metadata parse failure in Phase 1 or on the
\* Phase 2 reopen, schema mismatch, batch read failure, batch write failure)
\* carries the path of that file.
C20_InputErrorsCarryPath ==
    (variant = "main" /\ pc = "failed" /\ ConcernsInput) =>
        result.err.file = FailedInput

\* the record batches the run holds in memory: the batch read and not yet
\* written (main.rs), the collected DataFrame (consolidator.rs)
InFlight == (IF batch = NoBatch THEN 0 ELSE 1) + Len(frame)

\* C21: in both consolidate_parquet_files (main.rs and consolidator.rs) at
\* most one record batch is in flight at any time, and the batches of the
\* inputs are never held together before the output writer exists.
C21_OneBatchInFlight ==
    /\ InFlight <= 1
    /\ writer = "none" => frame = <<>>

\* C22: at every point of a run of either consolidate_parquet_files, every
\* input file has the content it had before the run, whatever the input list
\* and the output path (the output path may be one of the inputs), whether
\* the run succeeds or fails.
C22_InputsNeverModified ==
    \A i \in DOMAIN inputs : fs[inputs[i]] = fs0[inputs[i]]
====
